---- MODULE Spec2Model ----
(***************************************************************************)
(* Model of datastructure::RBTree (rbtree.h, the per-tree-sentinel         *)
(* variant).  The heap is a finite set of node slots; every link is a slot *)
(* number or Null.  Each public operation of the container is one action   *)
(* that runs the whole handler, written as an operator from a tree record  *)
(* to a tree record so that every pointer read and write of the C++ code   *)
(* appears as one step of the operator.                                    *)
(***************************************************************************)
EXTENDS Integers, Sequences, FiniteSets, TLC

\* ------------------------------------------------------------------ bounds
MaxKey == 4
MaxNodes == 4
MaxCallKey == 3
MaxVal == 1
MaxValKey == 1
MaxRangeKey == 2
MaxRangeLen == 2
MaxTreesKey == 2
MaxTreesBlocks == 4
RingSlots == 3                  \* Slots of the RingBuffer<T, Slots> of the runs
MaxRingVal == 2                 \* the values pushed are 1..MaxRingVal
MaxRingCalls == 10              \* push and emplace are called that often at most

Keys == 1..MaxKey
Vals == 0..MaxVal
CallKeys == 1..MaxCallKey       \* the keys of the runs that record results
\* The (key, value) pairs the calls are made with: every key with the default
\* value, the keys up to MaxValKey with every value.
Pairs(KS) == {p \in KS \X Vals : p[2] = 0 \/ p[1] <= MaxValKey}
Slots == 1..MaxNodes            \* heap slots that can hold a Node<K,T>
Nodes == 0..MaxNodes            \* slot 0 holds the sentinel of the tree
Null == 0 - 1                   \* nullptr
DefaultValue == 0               \* T{}
NoKey == 0                      \* key bytes of a slot that holds no Node

\* Every loop of the code is run for at most LoopFuel iterations; a loop
\* that is still running then never ends on a heap of this size.
LoopFuel == 4 * (MaxNodes + 2)

VARIABLES
    parent, left, right,        \* NodeBase::parent / left / right, per slot
    color,                      \* NodeBase::color, per slot
    key, value,                 \* Node::value.first / .second, per slot
    live,                       \* slots currently allocated
    nil, root,                  \* TreeBase::nil, TreeBase::root
    m_size,                     \* RBTree::m_size
    treeB,                      \* nil, root and m_size of a second tree object
    lifetime,                   \* which of the two tree objects are alive
    allocator,                  \* the allocator each tree object holds and the
                                \* one each block came from
    ring,                       \* a RingBuffer: m_storage, m_read, m_write
    comparator,                 \* the Compare the tree was built with
    status,                     \* "ok", or how the last call ended the run
    ref,                        \* reference map driven by the same calls
    ret                         \* the last call and how it returned, where recorded

vars == <<parent, left, right, color, key, value, live, nil, root, m_size,
          treeB, lifetime, allocator, ring, comparator, status, ref, ret>>

Absent == 0 - 2                 \* ref[k] of a key the reference map lacks

\* ------------------------------------------------------------- heap access
\* The tree and its heap as one record, the form the operators work on.
Cur ==
    [parent |-> parent, left |-> left, right |-> right, color |-> color,
     key |-> key, value |-> value, live |-> live, nil |-> nil, root |-> root,
     size |-> m_size, cmp |-> comparator, st |-> status]

\* A pointer that may be dereferenced: not nullptr and not freed.
Live(h, x) == x /= Null /\ x \in h.live

\* Dereferencing nullptr or a freed node is undefined behaviour.
Undef(h) == [h EXCEPT !.st = "undefined"]
Hang(h) == [h EXCEPT !.st = "hang"]

\* Field reads.  A read through a bad pointer yields Null here and is always
\* paired with a Chk or W on the same pointer, which marks the run undefined.
P(h, x) == IF x \in DOMAIN h.parent THEN h.parent[x] ELSE Null
L(h, x) == IF x \in DOMAIN h.left THEN h.left[x] ELSE Null
R(h, x) == IF x \in DOMAIN h.right THEN h.right[x] ELSE Null
C(h, x) == IF x \in DOMAIN h.color THEN h.color[x] ELSE "Black"
K(h, x) == IF x \in DOMAIN h.key THEN h.key[x] ELSE NoKey

\* The reads of this step go through the pointers in S.
Chk(h, S) ==
    IF h.st /= "ok" THEN h
    ELSE IF \A x \in S : Live(h, x) THEN h ELSE Undef(h)

\* x->f = v
W(h, f, x, v) ==
    IF h.st /= "ok" THEN h
    ELSE IF ~Live(h, x) THEN Undef(h)
    ELSE [h EXCEPT ![f][x] = v]

isLeftChild(h, node) == node = L(h, P(h, node))
isRightChild(h, node) == node = R(h, P(h, node))

\* Sequencing: G applied to the value of v (the statements of a handler are
\* chained through it, each seeing the tree the previous one left).
Bind(v, G(_)) == G(v)

\* linkTo(tree, node) = v
SetLink(h, node, v) ==
    Bind(Chk(h, {node, P(h, node)}), LAMBDA h0 :
    IF h0.st /= "ok" THEN h0
    ELSE IF isLeftChild(h0, node) THEN W(h0, "left", P(h0, node), v)
    ELSE IF isRightChild(h0, node) THEN W(h0, "right", P(h0, node), v)
    ELSE [h0 EXCEPT !.root = v])

RECURSIVE allLeftLoop(_, _, _)
allLeftLoop(h, node, fuel) ==
    IF fuel = 0 THEN [n |-> node, st |-> "hang"]
    ELSE IF ~(Live(h, node) /\ Live(h, L(h, node))) THEN [n |-> node, st |-> "undefined"]
    ELSE IF L(h, node) /= L(h, L(h, node)) THEN allLeftLoop(h, L(h, node), fuel - 1)
    ELSE [n |-> node, st |-> "ok"]

allLeft(h, node) == allLeftLoop(h, node, LoopFuel)

RECURSIVE allRightLoop(_, _, _)
allRightLoop(h, node, fuel) ==
    IF fuel = 0 THEN [n |-> node, st |-> "hang"]
    ELSE IF ~(Live(h, node) /\ Live(h, R(h, node))) THEN [n |-> node, st |-> "undefined"]
    ELSE IF R(h, node) /= R(h, R(h, node)) THEN allRightLoop(h, R(h, node), fuel - 1)
    ELSE [n |-> node, st |-> "ok"]

allRight(h, node) == allRightLoop(h, node, LoopFuel)

\* leftRotate without y->parent = x->parent: the node rotated up keeps the
\* node rotated down as its parent
leftRotateParentKept(h, x) ==
    Bind(R(h, x), LAMBDA y :
    Bind(Chk(h, {x, y}), LAMBDA h0 :
    Bind(W(h0, "right", x, L(h0, y)), LAMBDA h1 :
    Bind(W(h1, "parent", R(h1, x), x), LAMBDA h2 :
    Bind(W(h2, "left", y, x), LAMBDA h3 :
    Bind(SetLink(h3, x, y), LAMBDA h5 :
    W(h5, "parent", x, y)))))))

leftRotate(h, x) ==
    Bind(R(h, x), LAMBDA y :
    Bind(Chk(h, {x, y}), LAMBDA h0 :
    Bind(W(h0, "right", x, L(h0, y)), LAMBDA h1 :
    Bind(W(h1, "parent", R(h1, x), x), LAMBDA h2 :
    Bind(W(h2, "left", y, x), LAMBDA h3 :
    Bind(W(h3, "parent", y, P(h3, x)), LAMBDA h4 :
    Bind(SetLink(h4, x, y), LAMBDA h5 :
    W(h5, "parent", x, y))))))))

rightRotate(h, y) ==
    Bind(L(h, y), LAMBDA x :
    Bind(Chk(h, {y, x}), LAMBDA h0 :
    Bind(W(h0, "left", y, R(h0, x)), LAMBDA h1 :
    Bind(W(h1, "parent", L(h1, y), y), LAMBDA h2 :
    Bind(W(h2, "right", x, y), LAMBDA h3 :
    Bind(W(h3, "parent", x, P(h3, y)), LAMBDA h4 :
    Bind(SetLink(h4, y, x), LAMBDA h5 :
    W(h5, "parent", y, x))))))))

\* parent->color = Black; parent->parent->color = Red; rotate(parent->parent)
\* (the tail of both black-uncle branches; toRight: the rotation is rightRotate)
insertFixupRecolor(h, p, toRight) ==
    Bind(W(h, "color", p, "Black"), LAMBDA hC :
    Bind(W(hC, "color", P(hC, p), "Red"), LAMBDA hD :
    IF toRight THEN rightRotate(hD, P(hD, p)) ELSE leftRotate(hD, P(hD, p))))

\* The black-uncle branch of insertFixup for a parent that is a left child.
insertFixupLeft(h, node, par) ==
    IF isRightChild(h, node)
    THEN Bind(leftRotate(h, par), LAMBDA hA :
         [h |-> insertFixupRecolor(Chk(hA, {par}), P(hA, par), TRUE), node |-> par])
    ELSE [h |-> insertFixupRecolor(h, par, TRUE), node |-> node]

\* The black-uncle branch of insertFixup for a parent that is a right child.
insertFixupRight(h, node, par) ==
    IF isLeftChild(h, node)
    THEN Bind(rightRotate(h, par), LAMBDA hA :
         [h |-> insertFixupRecolor(Chk(hA, {par}), P(hA, par), FALSE), node |-> par])
    ELSE [h |-> insertFixupRecolor(h, par, FALSE), node |-> node]

\* The red-uncle branch: recolor and climb to the grandparent.
insertFixupClimb(h, par, uncle) ==
    Bind(W(h, "color", par, "Black"), LAMBDA h3 :
    Bind(W(h3, "color", uncle, "Black"), LAMBDA h4 :
    Bind(W(h4, "color", P(h4, par), "Red"), LAMBDA h5 :
    [h |-> h5, node |-> P(h5, par)])))

\* One iteration of the loop of insertFixup, entered with parent Red.
insertFixupStep(h, node, par) ==
    Bind(Chk(h, {P(h, par)}), LAMBDA h1 :
    Bind(isLeftChild(h1, par), LAMBDA pleft :
    Bind(IF pleft THEN R(h1, P(h1, par)) ELSE L(h1, P(h1, par)), LAMBDA uncle :
    Bind(Chk(h1, {uncle}), LAMBDA h2 :
    IF h2.st /= "ok" THEN [h |-> h2, node |-> node]
    ELSE IF C(h2, uncle) = "Red" THEN insertFixupClimb(h2, par, uncle)
    ELSE IF pleft THEN insertFixupLeft(h2, node, par)
    ELSE insertFixupRight(h2, node, par)))))

RECURSIVE insertFixupLoop(_, _, _)
insertFixupLoop(h, node, fuel) ==
    IF h.st /= "ok" THEN h
    ELSE IF fuel = 0 THEN Hang(h)
    ELSE
    Bind(Chk(h, {node, P(h, node)}), LAMBDA h0 :
    IF h0.st /= "ok" THEN h0
    ELSE IF C(h0, P(h0, node)) /= "Red" THEN h0
    ELSE Bind(insertFixupStep(h0, node, P(h0, node)), LAMBDA r :
         insertFixupLoop(r.h, r.node, fuel - 1)))

insertFixup(h, node) ==
    Bind(insertFixupLoop(h, node, LoopFuel), LAMBDA h1 :
    W(h1, "color", h1.root, "Black"))

\* The number of calls of leftRotate and rightRotate the loop of insertFixup
\* makes from node: none in an iteration with a Red uncle, one in an
\* iteration with a Black uncle, and one more when node is first aligned.
RECURSIVE insertFixupRotations(_, _, _)
insertFixupRotations(h, node, fuel) ==
    IF h.st /= "ok" \/ fuel = 0 THEN 0
    ELSE
    Bind(Chk(h, {node, P(h, node)}), LAMBDA h0 :
    IF h0.st /= "ok" \/ C(h0, P(h0, node)) /= "Red" THEN 0
    ELSE
    Bind(P(h0, node), LAMBDA par :
    Bind(Chk(h0, {P(h0, par)}), LAMBDA h1 :
    Bind(isLeftChild(h1, par), LAMBDA pleft :
    Bind(IF pleft THEN R(h1, P(h1, par)) ELSE L(h1, P(h1, par)), LAMBDA uncle :
    Bind(insertFixupStep(h0, node, par), LAMBDA r :
        (IF Chk(h1, {uncle}).st /= "ok" \/ C(h1, uncle) = "Red" THEN 0
         ELSE IF pleft /\ isRightChild(h1, node) THEN 2
         ELSE IF ~pleft /\ isLeftChild(h1, node) THEN 2
         ELSE 1)
        + insertFixupRotations(r.h, r.node, fuel - 1)))))))

\* Child of x on the side of the node being fixed (ls: that side is the left)
\* and on the other side, and the two rotations named from that side.
Near(h, x, ls) == IF ls THEN L(h, x) ELSE R(h, x)
Far(h, x, ls) == IF ls THEN R(h, x) ELSE L(h, x)
RotateTo(h, x, ls) == IF ls THEN leftRotate(h, x) ELSE rightRotate(h, x)
RotateAway(h, x, ls) == IF ls THEN rightRotate(h, x) ELSE leftRotate(h, x)

\* extractFixup, sibling Red: recolor, rotate the parent toward the node.
extractFixupRedSibling(h, par, sib, ls) ==
    Bind(W(h, "color", sib, "Black"), LAMBDA h1 :
    Bind(W(h1, "color", par, "Red"), LAMBDA h2 :
    RotateTo(h2, par, ls)))

\* extractFixup, far nephew Black: recolor, rotate the sibling away.
extractFixupInner(h, sib, ls) ==
    Bind(W(h, "color", Near(h, sib, ls), "Black"), LAMBDA h5 :
    Bind(W(h5, "color", sib, "Red"), LAMBDA h6 :
    RotateAway(h6, sib, ls)))

\* extractFixup, far nephew Red: recolor, rotate the parent, finish at root.
extractFixupOuter(h, par, sib, ls) ==
    Bind(Chk(h, {par, sib}), LAMBDA h8 :
    Bind(W(h8, "color", sib, C(h8, par)), LAMBDA h9 :
    Bind(W(h9, "color", par, "Black"), LAMBDA h10 :
    Bind(W(h10, "color", Far(h10, sib, ls), "Black"), LAMBDA h11 :
    Bind(RotateTo(h11, par, ls), LAMBDA h12 :
    [h |-> h12, node |-> h12.root])))))

\* The part of an iteration after the red-sibling case, sibling sib.
extractFixupNephews(h, node, par, sib, ls) ==
    Bind(Chk(h, {par, sib, Near(h, sib, ls), Far(h, sib, ls)}), LAMBDA h4 :
    IF h4.st /= "ok" THEN [h |-> h4, node |-> node]
    ELSE IF C(h4, Near(h4, sib, ls)) = "Black" /\ C(h4, Far(h4, sib, ls)) = "Black"
    THEN [h |-> W(h4, "color", sib, "Red"), node |-> par]
    ELSE IF C(h4, Far(h4, sib, ls)) = "Black"
    THEN Bind(extractFixupInner(h4, sib, ls), LAMBDA h7 :
         extractFixupOuter(h7, par, Far(h7, par, ls), ls))
    ELSE extractFixupOuter(h4, par, sib, ls))

\* One iteration of the loop of extractFixup, for a node on side ls of its
\* parent; yields the tree and the node the next iteration looks at.
extractFixupStep(h, node, par, ls) ==
    Bind(Far(h, par, ls), LAMBDA sib0 :
    Bind(Chk(h, {sib0}), LAMBDA h0 :
    IF h0.st = "ok" /\ C(h0, sib0) = "Red"
    THEN Bind(extractFixupRedSibling(h0, par, sib0, ls), LAMBDA h3 :
         extractFixupNephews(h3, node, par, Far(h3, par, ls), ls))
    ELSE extractFixupNephews(h0, node, par, sib0, ls)))

RECURSIVE extractFixupLoop(_, _, _)
extractFixupLoop(h, node, fuel) ==
    IF h.st /= "ok" THEN [h |-> h, node |-> node]
    ELSE IF fuel = 0 THEN [h |-> Hang(h), node |-> node]
    ELSE
    Bind(Chk(h, {node}), LAMBDA h0 :
    IF h0.st /= "ok" THEN [h |-> h0, node |-> node]
    ELSE IF ~(node /= h0.root /\ C(h0, node) = "Black") THEN [h |-> h0, node |-> node]
    ELSE Bind(Chk(h0, {P(h0, node)}), LAMBDA h1 :
         IF h1.st /= "ok" THEN [h |-> h1, node |-> node]
         ELSE Bind(extractFixupStep(h1, node, P(h1, node), isLeftChild(h1, node)), LAMBDA r :
              extractFixupLoop(r.h, r.node, fuel - 1))))

extractFixup(h, node) ==
    Bind(extractFixupLoop(h, node, LoopFuel), LAMBDA r :
    W(r.h, "color", r.node, "Black"))

\* A step that failed inside a helper ends the call the same way.
Fail(h, st) == IF h.st = "ok" /\ st /= "ok" THEN [h EXCEPT !.st = st] ELSE h

\* extractNode, two children, after the successor rep has been unhooked:
\* rep takes over the links of node.
extractNodeRelink(h, node, rep) ==
    Bind(IF C(h, rep) = "Black" THEN R(h, rep) ELSE Null, LAMBDA fix :
    Bind(W(h, "left", rep, L(h, node)), LAMBDA h3 :
    Bind(W(h3, "right", rep, R(h3, node)), LAMBDA h4 :
    Bind(W(h4, "parent", R(h4, rep), rep), LAMBDA h5 :
    Bind(W(h5, "parent", L(h5, rep), rep), LAMBDA h6 :
    [h |-> h6, replacement |-> rep, fixupRoot |-> fix])))))

\* The two-children branch of extractNode: the in-order successor is spliced
\* out of its place and given the links of node.
extractNodeTwo(h, node) ==
    Bind(allLeft(h, R(h, node)), LAMBDA al :
    Bind(Chk(Fail(h, al.st), {node, al.n}), LAMBDA h0 :
    IF al.n = R(h0, node)
    THEN Bind(W(h0, "right", node, R(h0, al.n)), LAMBDA h1 :
         Bind(W(h1, "parent", R(h1, node), node), LAMBDA h2 :
         extractNodeRelink(h2, node, al.n)))
    ELSE Bind(W(h0, "left", P(h0, al.n), R(h0, al.n)), LAMBDA h1 :
         Bind(W(h1, "parent", L(h1, P(h1, al.n)), P(h1, al.n)), LAMBDA h2 :
         extractNodeRelink(h2, node, al.n)))))

\* The branch of extractNode taken, with the replacement and the fixup root
\* (Null: no fixup) it chooses.
extractNodeCase(h, node) ==
    IF L(h, node) /= h.nil /\ R(h, node) /= h.nil
      THEN extractNodeTwo(h, node)
    ELSE IF L(h, node) /= h.nil
      THEN [h |-> h, replacement |-> L(h, node),
            fixupRoot |-> IF C(h, node) = "Black" THEN L(h, node) ELSE Null]
    ELSE IF R(h, node) /= h.nil
      THEN [h |-> h, replacement |-> R(h, node),
            fixupRoot |-> IF C(h, node) = "Black" THEN R(h, node) ELSE Null]
    ELSE [h |-> h, replacement |-> h.nil,
          fixupRoot |-> IF C(h, node) = "Black" THEN h.nil ELSE Null]

extractNode(h, node) ==
    Bind(extractNodeCase(Chk(h, {node}), node), LAMBDA s :
    Bind(SetLink(s.h, node, s.replacement), LAMBDA h1 :
    Bind(W(h1, "parent", s.replacement, P(h1, node)), LAMBDA h2 :
    Bind(W(h2, "color", s.replacement, C(h2, node)), LAMBDA h3 :
    IF s.fixupRoot /= Null THEN extractFixup(h3, s.fixupRoot) ELSE h3))))

\* ------------------------------------------------------------------ lookup
\* Compare: std::less<K> or std::greater<K>
cmp(h, a, b) == IF h.cmp = "less" THEN a < b ELSE a > b

RECURSIVE findNodeLoop(_, _, _, _, _)
findNodeLoop(h, k, node, next, fuel) ==
    IF next = h.nil THEN [n |-> node, st |-> "ok"]
    ELSE IF fuel = 0 THEN [n |-> node, st |-> "hang"]
    ELSE IF ~Live(h, next) THEN [n |-> next, st |-> "undefined"]
    ELSE IF cmp(h, k, K(h, next)) THEN findNodeLoop(h, k, next, L(h, next), fuel - 1)
    ELSE IF cmp(h, K(h, next), k) THEN findNodeLoop(h, k, next, R(h, next), fuel - 1)
    ELSE findNodeLoop(h, k, next, h.nil, fuel - 1)

findNode(h, k) == findNodeLoop(h, k, h.root, h.root, LoopFuel)

\* ---------------------------------------------------------------- traversal
RECURSIVE successorClimb(_, _, _)
successorClimb(h, node, fuel) ==
    IF node = h.nil THEN [n |-> Null, st |-> "ok"]
    ELSE IF fuel = 0 THEN [n |-> node, st |-> "hang"]
    ELSE IF ~(Live(h, node) /\ Live(h, P(h, node))) THEN [n |-> node, st |-> "undefined"]
    ELSE IF node = L(h, P(h, node)) THEN [n |-> P(h, node), st |-> "ok"]
    ELSE successorClimb(h, P(h, node), fuel - 1)

successor(h, node) ==
    IF node = h.nil THEN allLeft(h, h.root)
    ELSE IF ~Live(h, node) THEN [n |-> node, st |-> "undefined"]
    ELSE IF R(h, node) /= h.nil THEN allLeft(h, R(h, node))
    ELSE successorClimb(h, node, LoopFuel)

RECURSIVE predecessorClimb(_, _, _)
predecessorClimb(h, node, fuel) ==
    IF node = h.nil THEN [n |-> Null, st |-> "ok"]
    ELSE IF fuel = 0 THEN [n |-> node, st |-> "hang"]
    ELSE IF ~(Live(h, node) /\ Live(h, P(h, node))) THEN [n |-> node, st |-> "undefined"]
    ELSE IF node = R(h, P(h, node)) THEN [n |-> P(h, node), st |-> "ok"]
    ELSE predecessorClimb(h, P(h, node), fuel - 1)

predecessor(h, node) ==
    IF node = h.nil THEN allRight(h, h.root)
    ELSE IF ~Live(h, node) THEN [n |-> node, st |-> "undefined"]
    ELSE IF L(h, node) /= h.nil THEN allRight(h, L(h, node))
    ELSE predecessorClimb(h, node, LoopFuel)

\* begin() and end(): the node the iterator holds
begin(h) == allLeft(h, h.root)
end(h) == Null

\* for (it = begin(); it != end(); ++it): the nodes visited, in order.  The
\* walk is cut ("hang") once it has made more steps than the heap has slots.
RECURSIVE IterateFrom(_, _, _, _)
IterateFrom(h, it, seq, fuel) ==
    IF it.st /= "ok" THEN [seq |-> seq, st |-> it.st]
    ELSE IF it.n = end(h) THEN [seq |-> seq, st |-> "ok"]
    ELSE IF fuel = 0 THEN [seq |-> seq, st |-> "hang"]
    ELSE IterateFrom(h, successor(h, it.n), Append(seq, it.n), fuel - 1)

Iterate(h) == IterateFrom(h, begin(h), <<>>, MaxNodes + 2)

\* ---------------------------------------------------------- node lifecycle
\* buildNode: allocate slot n and construct a Node in it
buildNode(h, n, k, v) ==
    [h EXCEPT !.live = @ \cup {n}, !.parent[n] = Null, !.color[n] = "Red",
              !.key[n] = k, !.value[n] = v, !.left[n] = h.nil, !.right[n] = h.nil]

\* destroyNode: destroy the Node in slot n and give the slot back
destroyNode(h, n) ==
    IF h.st /= "ok" THEN h
    ELSE IF ~Live(h, n) THEN Undef(h)
    ELSE [h EXCEPT !.live = @ \ {n}, !.parent[n] = Null, !.left[n] = Null,
                   !.right[n] = Null, !.color[n] = "Red", !.key[n] = NoKey,
                   !.value[n] = DefaultValue]

\* createNil, on a heap whose slot n is free
createNil(h, n) ==
    [h EXCEPT !.live = @ \cup {n}, !.nil = n, !.parent[n] = Null,
              !.left[n] = n, !.right[n] = n, !.color[n] = "Black"]

\* ------------------------------------------------------------ the container
\* Attach a freshly built node n under the anchor findNode returned, then
\* rebalance and count it (the tail shared by insert and operator[]).
hook(h, n, k, node) ==
    Bind([h EXCEPT !.parent[n] = node], LAMBDA h1 :
    IF node = h1.nil THEN [h1 EXCEPT !.root = n]
    ELSE IF cmp(h1, k, K(h1, node)) THEN W(h1, "left", node, n)
    ELSE W(h1, "right", node, n))

attach(h, n, k, node) ==
    Bind(insertFixup(hook(h, n, k, node), n), LAMBDA h3 :
    IF h3.st = "ok" THEN [h3 EXCEPT !.size = @ + 1] ELSE h3)

\* insertAt counting the node before it is built
insertAtCounted(h, k, v, n, f) ==
    IF f.st /= "ok" THEN [h |-> Fail(h, f.st), res |-> "none", node |-> Null]
    ELSE IF f.n /= h.nil /\ k = K(h, f.n)
    THEN [h |-> h, res |-> "exists", node |-> f.n]
    ELSE IF n = Null
    THEN [h |-> [h EXCEPT !.size = @ + 1], res |-> "bad_alloc", node |-> Null]
    ELSE [h |-> attach(buildNode(h, n, k, v), n, k, f.n),
          res |-> "inserted", node |-> n]

\* insertAt allocating its node before looking at what findNode returned
insertAtLeaky(h, k, v, n, f) ==
    IF f.st /= "ok" THEN [h |-> Fail(h, f.st), res |-> "none", node |-> Null]
    ELSE IF n = Null THEN [h |-> h, res |-> "bad_alloc", node |-> Null]
    ELSE IF f.n /= h.nil /\ k = K(h, f.n)
    THEN [h |-> buildNode(h, n, k, v), res |-> "exists", node |-> f.n]
    ELSE [h |-> attach(buildNode(h, n, k, v), n, k, f.n),
          res |-> "inserted", node |-> n]

\* insert and operator[] after findNode returned f: v is the value the new
\* node is built with, n the slot the allocator hands out (Null when it has
\* none and throws).
insertAt(h, k, v, n, f) ==
    IF f.st /= "ok" THEN [h |-> Fail(h, f.st), res |-> "none", node |-> Null]
    ELSE IF f.n /= h.nil /\ k = K(h, f.n)
    THEN [h |-> h, res |-> "exists", node |-> f.n]
    ELSE IF n = Null THEN [h |-> h, res |-> "bad_alloc", node |-> Null]
    ELSE [h |-> attach(buildNode(h, n, k, v), n, k, f.n),
          res |-> "inserted", node |-> n]

\* insert(value_type &&)
insert(h, k, v, n) == insertAt(h, k, v, n, findNode(h, k))

\* operator[](const K &)
index(h, k, n) == insertAt(h, k, DefaultValue, n, findNode(h, k))

\* insert(Iterator first, Iterator last): while (first != last) insert(*first).
\* values is the range, slots the slots the allocator hands out, in order
\* (when they run out the next allocation throws and ends the loop); rest is
\* the part of the range no insert was completed for.
RECURSIVE insertRange(_, _, _)
insertRange(h, values, slots) ==
    IF h.st /= "ok" \/ values = <<>> THEN [h |-> h, res |-> "none", rest |-> values]
    ELSE Bind(insert(h, Head(values)[1], Head(values)[2],
                     IF slots = <<>> THEN Null ELSE Head(slots)), LAMBDA r :
         IF r.res = "bad_alloc" THEN [h |-> r.h, res |-> "bad_alloc", rest |-> values]
         ELSE insertRange(r.h, Tail(values),
                          IF r.res = "inserted" THEN Tail(slots) ELSE slots))

\* at(const K &) after findNode returned f: the node whose value is returned,
\* or Null when it throws
atNode(h, k, f) ==
    IF f.st /= "ok" THEN [st |-> f.st, res |-> "none", node |-> Null]
    ELSE IF f.n /= h.nil /\ k = K(h, f.n)
    THEN [st |-> "ok", res |-> "value", node |-> f.n]
    ELSE [st |-> "ok", res |-> "out_of_range", node |-> Null]

at(h, k) == atNode(h, k, findNode(h, k))

\* find(const K &) after findNode returned f
findIt(h, k, f) ==
    IF f.st /= "ok" THEN f
    ELSE IF f.n = h.nil \/ k /= K(h, f.n) THEN [n |-> Null, st |-> "ok"]
    ELSE f

\* find(const K &): the node the returned iterator holds (Null: end())
find(h, k) ==
    IF h.root = h.nil THEN [n |-> Null, st |-> "ok"]
    ELSE findIt(h, k, findNode(h, k))

\* erase(iterator)
\* erase(iterator) copying the successor's key and value into a node with two
\* children and destroying the successor instead
eraseNodeCopying(h, node) ==
    IF Live(h, node) /\ L(h, node) /= h.nil /\ R(h, node) /= h.nil
    THEN Bind(allLeft(h, R(h, node)), LAMBDA al :
         IF al.st /= "ok" THEN Fail(h, al.st)
         ELSE Bind([h EXCEPT !.key[node] = h.key[al.n],
                             !.value[node] = h.value[al.n]], LAMBDA h1 :
              Bind(destroyNode(extractNode(h1, al.n), al.n), LAMBDA h2 :
              IF h2.st = "ok" THEN [h2 EXCEPT !.size = @ - 1] ELSE h2)))
    ELSE Bind(destroyNode(extractNode(h, node), node), LAMBDA h2 :
         IF h2.st = "ok" THEN [h2 EXCEPT !.size = @ - 1] ELSE h2)

eraseNode(h, node) ==
    Bind(destroyNode(extractNode(h, node), node), LAMBDA h2 :
    IF h2.st = "ok" THEN [h2 EXCEPT !.size = @ - 1] ELSE h2)

\* erase(const K &) without the comparison of the iterator with end()
eraseItUnchecked(h, it) ==
    IF it.st /= "ok" THEN [h |-> Fail(h, it.st), res |-> "none"]
    ELSE [h |-> eraseNode(h, it.n), res |-> "erased"]

\* erase(const K &) after find returned it
eraseIt(h, it) ==
    IF it.st /= "ok" THEN [h |-> Fail(h, it.st), res |-> "none"]
    ELSE IF it.n /= end(h) THEN [h |-> eraseNode(h, it.n), res |-> "erased"]
    ELSE [h |-> h, res |-> "absent"]

\* erase(const K &)
erase(h, k) == eraseIt(h, find(h, k))

\* clear(): the do-while that destroys a node and climbs while it was a right child
RECURSIVE clearClimb(_, _, _)
clearClimb(h, node, fuel) ==
    IF h.st /= "ok" THEN [h |-> h, node |-> node]
    ELSE IF fuel = 0 THEN [h |-> Hang(h), node |-> node]
    ELSE
    Bind(P(h, node), LAMBDA up :
    Bind(Chk(destroyNode(Chk(h, {node}), node), {up}), LAMBDA h2 :
    IF h2.st /= "ok" THEN [h |-> h2, node |-> up]
    ELSE IF node = R(h2, up) THEN clearClimb(h2, up, fuel - 1)
    ELSE [h |-> h2, node |-> up]))

\* clear(): while (node->right != nil) node = allLeft(node->right)
RECURSIVE clearDescend(_, _, _)
clearDescend(h, node, fuel) ==
    IF fuel = 0 THEN [n |-> node, st |-> "hang"]
    ELSE IF ~Live(h, node) THEN [n |-> node, st |-> "undefined"]
    ELSE IF R(h, node) = h.nil THEN [n |-> node, st |-> "ok"]
    ELSE Bind(allLeft(h, R(h, node)), LAMBDA a :
         IF a.st /= "ok" THEN a ELSE clearDescend(h, a.n, fuel - 1))

RECURSIVE clearLoop(_, _, _)
clearLoop(h, node, fuel) ==
    IF h.st /= "ok" THEN h
    ELSE IF node = h.nil THEN h
    ELSE IF fuel = 0 THEN Hang(h)
    ELSE
    Bind(clearDescend(h, node, LoopFuel), LAMBDA d :
    Bind(clearClimb(Fail(h, d.st), d.n, LoopFuel), LAMBDA c :
    clearLoop(c.h, c.node, fuel - 1)))

clear(h) ==
    Bind(allLeft(h, h.root), LAMBDA a :
    Bind(clearLoop(Fail(h, a.st), a.n, LoopFuel), LAMBDA h1 :
    IF h1.st = "ok" THEN [h1 EXCEPT !.root = h1.nil, !.size = 0] ELSE h1))

\* size(), empty()
size(h) == h.size
empty(h) == h.size = 0

\* The (key, value) pairs of the nodes an iteration visited, in order.
ValuesOf(h, seq) == [i \in 1..Len(seq) |-> <<h.key[seq[i]], h.value[seq[i]]>>]

\* RBTree(const RBTree & other) on the heap h, whose nil/root/size are those of
\* other: root = createNil() in slot n, then insert(other.begin(), other.end()).
\* The result's nil/root/size are those of the new tree.
copyConstruct(h, n, slots) ==
    IF n = Null THEN [h |-> h, res |-> "bad_alloc"]
    ELSE Bind(Iterate(h), LAMBDA w :
         IF w.st /= "ok" THEN [h |-> Fail(h, w.st), res |-> "none"]
         ELSE Bind(createNil(h, n), LAMBDA c :
              Bind(insertRange([c EXCEPT !.root = n, !.size = 0],
                               ValuesOf(h, w.seq), slots), LAMBDA r :
              [h |-> r.h, res |-> r.res])))

\* RBTree(RBTree && other) without swap(m_size, other.m_size)
moveConstructSizeKept(other) ==
    [tree |-> [other EXCEPT !.m_size = 0],
     other |-> [nil |-> Null, root |-> Null, m_size |-> other.m_size]]

\* RBTree(RBTree && other): the new object's nil, root and m_size (nullptr,
\* nullptr, 0 by their default initialisers) are swapped with those of other.
moveConstruct(other) == [tree |-> other, other |-> [nil |-> Null, root |-> Null, m_size |-> 0]]

\* swap without swap(m_size, rhs.m_size)
swapSizeKept(lhs, rhs) ==
    [tree |-> [rhs EXCEPT !.m_size = lhs.m_size],
     other |-> [lhs EXCEPT !.m_size = rhs.m_size]]

\* swap(rhs): nil, root and m_size of the two objects are exchanged (their
\* comparators and allocators are the same here)
swap(lhs, rhs) == [tree |-> rhs, other |-> lhs]

\* RBTree(RBTree && other, const Allocator & alloc) on the heap h, whose
\* nil/root/size are those of other; same: alloc == other's allocator.  Equal
\* allocators: the fields are swapped.  Else root = createNil() in slot n and
\* insert(move_iterator(other.begin()), move_iterator(other.end())).
moveConstructAlloc(h, same, n, slots) ==
    IF same
    THEN [h |-> h, res |-> "none", tree |-> [nil |-> h.nil, root |-> h.root, m_size |-> h.size],
          other |-> [nil |-> Null, root |-> Null, m_size |-> 0]]
    ELSE Bind(copyConstruct(h, n, slots), LAMBDA r :
         [h |-> r.h, res |-> r.res, tree |-> [nil |-> r.h.nil, root |-> r.h.root, m_size |-> r.h.size], other |-> [nil |-> h.nil, root |-> h.root, m_size |-> h.size]])

\* operator=(RBTree && rhs) for an allocator that does not propagate on move
\* assignment, on the heap h whose nil/root/size are those of *this: clear(),
\* assert(allocator() == rhs.allocator()), then nil, root and m_size are
\* swapped.  asserts: the build checks assertions (no NDEBUG).
moveAssign(h, rhs, same, asserts) ==
    Bind(clear(h), LAMBDA h1 :
    IF h1.st /= "ok" THEN [h |-> h1, tree |-> [nil |-> h1.nil, root |-> h1.root, m_size |-> h1.size], other |-> rhs]
    ELSE IF ~same /\ asserts THEN [h |-> Undef(h1), tree |-> [nil |-> h1.nil, root |-> h1.root, m_size |-> h1.size], other |-> rhs]
    ELSE [h |-> h1, tree |-> rhs, other |-> [nil |-> h1.nil, root |-> h1.root, m_size |-> h1.size]])

\* ~RBTree(): if (root) clear(); destroyNil()
destroyNil(h) == IF h.nil /= Null THEN destroyNode(h, h.nil) ELSE h
destroy(h) == destroyNil(IF h.root /= Null THEN clear(h) ELSE h)

\* operator==(lhs, rhs) on one heap h, a and b the nil/root/m_size of lhs and
\* rhs: sizes equal and std::equal(lhs.cbegin(), lhs.cend(), rhs.cbegin()).
With(h, a) == [h EXCEPT !.nil = a.nil, !.root = a.root, !.size = a.m_size]
RECURSIVE equalLoop(_, _, _, _, _, _)
equalLoop(h, a, b, first1, first2, fuel) ==
    IF first1.st /= "ok" THEN [eq |-> FALSE, st |-> first1.st]
    ELSE IF first1.n = end(With(h, a)) THEN [eq |-> TRUE, st |-> "ok"]
    ELSE IF first2.st /= "ok" THEN [eq |-> FALSE, st |-> first2.st]
    ELSE IF fuel = 0 THEN [eq |-> FALSE, st |-> "hang"]
    ELSE IF ~(Live(h, first1.n) /\ Live(h, first2.n)) THEN [eq |-> FALSE, st |-> "undefined"]
    \* *first on a sentinel reads a value that was never constructed
    ELSE IF first1.n = a.nil \/ first2.n = b.nil THEN [eq |-> FALSE, st |-> "undefined"]
    ELSE IF <<h.key[first1.n], h.value[first1.n]>> /= <<h.key[first2.n], h.value[first2.n]>>
    THEN [eq |-> FALSE, st |-> "ok"]
    ELSE equalLoop(h, a, b, successor(With(h, a), first1.n),
                   successor(With(h, b), first2.n), fuel - 1)
equal(h, a, b) ==
    IF a.m_size /= b.m_size THEN [eq |-> FALSE, st |-> "ok"]
    ELSE equalLoop(h, a, b, begin(With(h, a)), begin(With(h, b)), MaxNodes + 2)

\* ------------------------------------------------------------------ actions
\* TreeBase and m_size of a tree object that holds nothing: nil = root = nullptr.
NoTree == [nil |-> Null, root |-> Null, m_size |-> 0]
\* Only the first tree object has been constructed.
OneTree == [tree |-> "live", treeB |-> "none"]

FreeSlots == Slots \ live

\* What allocate() does: it returns any free slot, or it throws (Null).
AllocChoices == FreeSlots \cup {Null}

\* The nodes a descent from the root reaches through left and right links,
\* the sentinel excluded.
RECURSIVE ReachFrom(_, _, _)
ReachFrom(h, S, fuel) ==
    IF fuel = 0 THEN S
    ELSE Bind(S \cup {c \in {L(h, x) : x \in S} \cup {R(h, x) : x \in S} :
                        c /= h.nil /\ c \in Nodes}, LAMBDA T :
         IF T = S THEN S ELSE ReachFrom(h, T, fuel - 1))

Reach(h) == IF h.root = h.nil THEN {} ELSE ReachFrom(h, {h.root}, MaxNodes + 1)

\* The allocator each block of h came from (0: the block is free): a block
\* allocated during the call came from the allocator of the tree object that
\* holds it when the call returns, a its nil/root/m_size for the first one.
Origin(h, a) ==
    [n \in Nodes |->
        IF n \notin h.live THEN 0
        ELSE IF n \in live THEN allocator.origin[n]
        ELSE IF allocator.tree = allocator.treeB THEN allocator.tree
        ELSE IF n \in {a.nil} \cup Reach(With(h, a)) THEN allocator.tree
        ELSE allocator.treeB]

\* The call returned (or threw): the tree is as the handler left it.  A call
\* that ran into undefined behaviour or never returns ends the run; what the
\* memory then holds is not part of the model, and every field is blanked.
Leave(h, a, b, lt) ==
    /\ status' = h.st
    /\ IF h.st = "ok"
       THEN /\ parent' = h.parent /\ left' = h.left /\ right' = h.right
            /\ color' = h.color /\ key' = h.key /\ value' = h.value
            /\ live' = h.live /\ nil' = a.nil /\ root' = a.root
            /\ m_size' = a.m_size /\ treeB' = b /\ lifetime' = lt
       ELSE /\ parent' = [n \in Nodes |-> Null] /\ left' = [n \in Nodes |-> Null]
            /\ right' = [n \in Nodes |-> Null] /\ color' = [n \in Nodes |-> "Red"]
            /\ key' = [n \in Nodes |-> NoKey] /\ value' = [n \in Nodes |-> DefaultValue]
            /\ live' = {} /\ nil' = Null /\ root' = Null /\ m_size' = 0
            /\ treeB' = NoTree /\ lifetime' = OneTree
    /\ allocator' = [allocator EXCEPT !.origin =
                         IF h.st = "ok" THEN Origin(h, a) ELSE [n \in Nodes |-> 0]]
    /\ UNCHANGED <<comparator, ring>>

\* nil, root and m_size as the handler left them in h
Fields(h) == [nil |-> h.nil, root |-> h.root, m_size |-> h.size]

\* A call on the first tree object returned.
Commit(h) == Leave(h, Fields(h), treeB, lifetime)

\* What ret records of a call, in the runs that record it.
NotRecorded == [op |-> "off", res |-> "off"]
Call(op, res) == IF ret = NotRecorded THEN NotRecorded ELSE [op |-> op, res |-> res]

\* ------------------------------------------------------------- RingBuffer
\* A RingBuffer<T, Slots> of a trivially destructible T: m_storage is the
\* value of the object in each slot (0: no object), m_read and m_write are
\* slot indexes (Null: nullptr).  pushed, pushes and pops record the calls:
\* the values pushed and not yet popped, oldest first, and the number of
\* calls of push and of pop.
RingBuffer0 ==
    [m_storage |-> [i \in 0..(RingSlots - 1) |-> 0], m_read |-> 0, m_write |-> 0,
     st |-> "ok", pushed |-> <<>>, pushes |-> 0, pops |-> 0]

\* push without m_write = nullptr when the write cursor reaches the read
\* cursor
RingBuffer_pushNeverFull(r, val) ==
    IF r.m_write = Null THEN [r EXCEPT !.st = "undefined"]
    ELSE [r EXCEPT !.m_storage[r.m_write] = val,
                   !.m_write = IF r.m_write + 1 >= RingSlots THEN 0 ELSE r.m_write + 1,
                   !.pushed = Append(@, val), !.pushes = @ + 1]

\* push(const T &), push(T &&) and emplace(args): new (m_write) T(val);
\* if (++m_write >= storageEnd()) m_write = storageBegin();
\* if (m_write == m_read) m_write = nullptr
RingBuffer_push(r, val) ==
    IF r.m_write = Null THEN [r EXCEPT !.st = "undefined"]
    ELSE Bind(IF r.m_write + 1 >= RingSlots THEN 0 ELSE r.m_write + 1, LAMBDA w :
         [r EXCEPT !.m_storage[r.m_write] = val,
                   !.m_write = IF w = r.m_read THEN Null ELSE w,
                   !.pushed = Append(@, val), !.pushes = @ + 1])

\* pop without if (!m_write) m_write = m_read
RingBuffer_popStillFull(r) ==
    {[r EXCEPT !.m_storage[r.m_read] = 0,
               !.m_read = IF r.m_read + 1 >= RingSlots THEN 0 ELSE r.m_read + 1,
               !.pushed = IF @ = <<>> THEN @ ELSE Tail(@), !.pops = @ + 1]}

\* pop(): the outcomes of m_read->~T(); if (!m_write) m_write = m_read;
\* if (++m_read >= storageEnd()) m_read = storageBegin().  The destructor
\* call on a slot that holds no object is undefined; for a trivially
\* destructible T a build makes it no instruction.
RingBuffer_pop(r) ==
    {[r EXCEPT !.m_storage[r.m_read] = 0,
               !.m_write = IF r.m_write = Null THEN r.m_read ELSE @,
               !.m_read = IF r.m_read + 1 >= RingSlots THEN 0 ELSE r.m_read + 1,
               !.pushed = IF @ = <<>> THEN @ ELSE Tail(@), !.pops = @ + 1]}
    \cup (IF r.m_storage[r.m_read] = 0 THEN {[r EXCEPT !.st = "undefined"]} ELSE {})

RingBuffer_empty(r) == r.m_read = r.m_write

RingBuffer_size(r) ==
    IF r.m_write = Null THEN RingSlots
    ELSE IF r.m_read <= r.m_write THEN r.m_write - r.m_read
    ELSE (RingSlots - r.m_read) + (r.m_write - 0)

RingBuffer_front(r) == r.m_storage[r.m_read]

\* The state RBTree() leaves: the sentinel in slot 0, no node.
Constructed ==
    /\ ring = RingBuffer0
    /\ comparator = "less"
    /\ nil = 0
    /\ root = 0
    /\ live = {0}
    /\ parent = [n \in Nodes |-> Null]
    /\ left = [n \in Nodes |-> IF n = 0 THEN 0 ELSE Null]
    /\ right = [n \in Nodes |-> IF n = 0 THEN 0 ELSE Null]
    /\ color = [n \in Nodes |-> IF n = 0 THEN "Black" ELSE "Red"]
    /\ key = [n \in Nodes |-> NoKey]
    /\ value = [n \in Nodes |-> DefaultValue]
    /\ m_size = 0
    /\ treeB = NoTree
    /\ lifetime = OneTree
    /\ status = "ok"
    /\ ref = [k \in Keys |-> Absent]

\* Both tree objects are given the same allocator.
SameAllocator ==
    [tree |-> 1, treeB |-> 1, origin |-> [n \in Nodes |-> IF n = 0 THEN 1 ELSE 0]]

Init == Constructed /\ ret = NotRecorded /\ allocator = SameAllocator

InitCalls ==
    Constructed /\ ret = [op |-> "construct", res |-> "none"] /\ allocator = SameAllocator

\* tree.insert({k, v})
Insert(k, v) ==
    /\ status = "ok"
    /\ \E n \in AllocChoices :
         Bind(insert(Cur, k, v, n), LAMBDA r :
             /\ Commit(r.h)
             /\ ret' = Call("insert", r.res)
             /\ ref' = IF r.res = "inserted" THEN [ref EXCEPT ![k] = v] ELSE ref)

\* tree[k]  (the reference is only read)
Index(k) ==
    /\ status = "ok"
    /\ \E n \in AllocChoices :
         Bind(index(Cur, k, n), LAMBDA r :
             /\ Commit(r.h)
             /\ ret' = Call("index", r.res)
             /\ ref' = IF r.res = "inserted"
                       THEN [ref EXCEPT ![k] = DefaultValue] ELSE ref)

\* operator[] returned node r.node: the assignment through the reference
assign(r, v) ==
    IF r.h.st = "ok" /\ r.node /= Null
    THEN [r EXCEPT !.h = [r.h EXCEPT !.value[r.node] = v]] ELSE r

\* tree[k] = v
IndexAssign(k, v) ==
    /\ status = "ok"
    /\ \E n \in AllocChoices :
         Bind(assign(index(Cur, k, n), v), LAMBDA r :
             /\ Commit(r.h)
             /\ ret' = Call("assign", r.res)
             /\ ref' = IF r.node /= Null THEN [ref EXCEPT ![k] = v] ELSE ref)

\* tree.at(k)
At(k) ==
    /\ status = "ok"
    /\ Bind(at(Cur, k), LAMBDA r :
           /\ Commit(Fail(Cur, r.st))
           /\ ret' = Call("at", r.res))
    /\ UNCHANGED ref

\* tree.find(k), compared with end()
Find(k) ==
    /\ status = "ok"
    /\ Bind(find(Cur, k), LAMBDA f :
           /\ Commit(Fail(Cur, f.st))
           /\ ret' = Call("find", IF f.n = end(Cur) THEN "end" ELSE "found"))
    /\ UNCHANGED ref

\* tree.erase(k)
Erase(k) ==
    /\ status = "ok"
    /\ Bind(erase(Cur, k), LAMBDA r :
           /\ Commit(r.h)
           /\ ret' = Call("erase", r.res)
           /\ ref' = [ref EXCEPT ![k] = Absent])

\* tree.clear()
Clear ==
    /\ status = "ok"
    /\ Bind(clear(Cur), LAMBDA h :
           /\ Commit(h)
           /\ ret' = Call("clear", "none")
           /\ ref' = [k \in Keys |-> Absent])

Next ==
    \/ \E p \in Pairs(Keys) : Insert(p[1], p[2])
    \/ \E k \in Keys : Index(k)
    \/ \E p \in Pairs(Keys) : IndexAssign(p[1], p[2])
    \/ \E k \in Keys : At(k)
    \/ \E k \in Keys : Find(k)
    \/ \E k \in Keys : Erase(k)
    \/ Clear

Spec == Init /\ [][Next]_vars

\* The same calls over the keys CallKeys, with the result of each recorded.
NextCalls ==
    \/ \E p \in Pairs(CallKeys) : Insert(p[1], p[2])
    \/ \E k \in CallKeys : Index(k)
    \/ \E p \in Pairs(CallKeys) : IndexAssign(p[1], p[2])
    \/ \E k \in CallKeys : At(k)
    \/ \E k \in CallKeys : Find(k)
    \/ \E k \in CallKeys : Erase(k)
    \/ Clear

SpecCalls == InitCalls /\ [][NextCalls]_vars

\* The ranges insert(first, last) is called with, and the orders in which the
\* allocator may hand out n or fewer of the free slots.
Ranges ==
    UNION {[1..n -> Pairs(1..MaxRangeKey)] : n \in 0..MaxRangeLen}
SlotOrders(n) ==
    UNION {{o \in [1..m -> FreeSlots] : \A i, j \in 1..m : i /= j => o[i] /= o[j]} :
           m \in 0..n}

\* The reference map after insert(values): the first pair of each key the map
\* lacks is added.
RECURSIVE refInsertRange(_, _)
refInsertRange(m, values) ==
    IF values = <<>> THEN m
    ELSE refInsertRange(IF m[Head(values)[1]] = Absent
                        THEN [m EXCEPT ![Head(values)[1]] = Head(values)[2]]
                        ELSE m, Tail(values))

\* tree.insert(values.begin(), values.end())
InsertRange(values) ==
    /\ status = "ok"
    /\ \E slots \in SlotOrders(Len(values)) :
         Bind(insertRange(Cur, values, slots), LAMBDA r :
             /\ Commit(r.h)
             /\ ret' = Call("insert_range", r.res)
             /\ ref' = refInsertRange(ref, SubSeq(values, 1, Len(values) - Len(r.rest))))

\* Range inserts, erase and clear over the keys 1..MaxRangeKey, results recorded.
NextRange ==
    \/ \E values \in Ranges : InsertRange(values)
    \/ \E k \in 1..MaxRangeKey : Erase(k)
    \/ \E k \in 1..MaxRangeKey : At(k)
    \/ Clear

SpecRange == InitCalls /\ [][NextRange]_vars

\* ------------------------------------------------------- two tree objects
\* The second tree object with the heap, and what a call on it leaves.
CurB == With(Cur, treeB)
CommitB(h) == Leave(h, Fields(Cur), Fields(h), lifetime)

\* The slots the allocator may hand out for the nodes of a copy of tree whose
\* sentinel it put in slot n.
CopySlots(n) ==
    {slots \in SlotOrders(m_size) : \A i \in 1..Len(slots) : slots[i] /= n}

\* auto treeB = tree;
CopyConstruct ==
    /\ status = "ok" /\ lifetime = OneTree
    /\ \E n \in AllocChoices : \E slots \in CopySlots(n) :
         Bind(copyConstruct(Cur, n, slots), LAMBDA r :
             /\ IF r.res = "bad_alloc"
                THEN Leave(r.h, Fields(Cur), NoTree, [lifetime EXCEPT !.treeB = "failed"])
                ELSE Leave(r.h, Fields(Cur), Fields(r.h), [lifetime EXCEPT !.treeB = "live"])
             /\ ret' = Call("copy", r.res))
    /\ UNCHANGED ref

\* auto treeB = std::move(tree);
MoveConstruct ==
    /\ status = "ok" /\ lifetime = OneTree
    /\ Bind(moveConstruct(Fields(Cur)), LAMBDA m :
           Leave(Cur, m.other, m.tree, [lifetime EXCEPT !.treeB = "live"]))
    /\ ret' = Call("move", "none")
    /\ ref' = [k \in Keys |-> Absent]

\* treeB.insert({k, v})
InsertB(k, v) ==
    /\ status = "ok" /\ lifetime.treeB = "live"
    /\ \E n \in AllocChoices :
         Bind(insert(CurB, k, v, n), LAMBDA r :
             CommitB(r.h) /\ ret' = Call("insertB", r.res))
    /\ UNCHANGED ref

\* treeB[k] = v
IndexAssignB(k, v) ==
    /\ status = "ok" /\ lifetime.treeB = "live"
    /\ \E n \in AllocChoices :
         Bind(assign(index(CurB, k, n), v), LAMBDA r :
             CommitB(r.h) /\ ret' = Call("assignB", r.res))
    /\ UNCHANGED ref

\* treeB.erase(k)
EraseB(k) ==
    /\ status = "ok" /\ lifetime.treeB = "live"
    /\ Bind(erase(CurB, k), LAMBDA r :
           CommitB(r.h) /\ ret' = Call("eraseB", r.res))
    /\ UNCHANGED ref

\* treeB.clear()
ClearB ==
    /\ status = "ok" /\ lifetime.treeB = "live"
    /\ Bind(clear(CurB), LAMBDA h :
           CommitB(h) /\ ret' = Call("clearB", "none"))
    /\ UNCHANGED ref

\* tree.swap(treeB); from here on the reference map follows what treeB held
Swap ==
    /\ status = "ok" /\ lifetime = [tree |-> "live", treeB |-> "live"]
    /\ Bind(swap(Fields(Cur), treeB), LAMBDA w :
           Leave(Cur, w.tree, w.other, lifetime))
    /\ ret' = Call("swap", "none")
    /\ ref' = [k \in Keys |->
                 Bind(at(CurB, k), LAMBDA r :
                     IF r.st = "ok" /\ r.node /= Null THEN value[r.node] ELSE Absent)]

\* tree goes out of scope
Destroy ==
    /\ status = "ok" /\ lifetime.tree = "live"
    /\ Bind(destroy(Cur), LAMBDA h :
           Leave(h, NoTree, treeB, [lifetime EXCEPT !.tree = "destroyed"]))
    /\ ret' = Call("destroy", "none")
    /\ ref' = [k \in Keys |-> Absent]

\* treeB goes out of scope
DestroyB ==
    /\ status = "ok" /\ lifetime.treeB = "live"
    /\ Bind(destroy(CurB), LAMBDA h :
           Leave(h, Fields(Cur), NoTree, [lifetime EXCEPT !.treeB = "destroyed"]))
    /\ ret' = Call("destroyB", "none")
    /\ UNCHANGED ref

\* Two tree objects on one allocator: the first is built up as before, the
\* second is copy- or move-constructed from it, both are used and destroyed.
TreeKeys == 1..MaxTreesKey
\* The allocator has room for MaxTreesBlocks blocks.
Room == Cardinality(live') <= MaxTreesBlocks
NextTrees ==
    \/ lifetime.tree = "live" /\ (\E p \in Pairs(TreeKeys) : Insert(p[1], p[2])) /\ Room
    \/ lifetime.tree = "live" /\ (\E p \in Pairs(TreeKeys) : IndexAssign(p[1], p[2])) /\ Room
    \/ lifetime.tree = "live" /\ \E k \in TreeKeys : Erase(k)
    \/ lifetime.tree = "live" /\ Clear
    \/ CopyConstruct /\ Room
    \/ MoveConstruct
    \/ (\E p \in Pairs(TreeKeys) : InsertB(p[1], p[2])) /\ Room
    \/ (\E p \in Pairs(TreeKeys) : IndexAssignB(p[1], p[2])) /\ Room
    \/ \E k \in TreeKeys : EraseB(k)
    \/ ClearB
    \/ Destroy
    \/ DestroyB

SpecTrees == Init /\ [][NextTrees]_vars

\* RBTree treeB(std::move(tree), alloc), alloc being the allocator treeB holds
MoveConstructAlloc ==
    /\ status = "ok" /\ lifetime = OneTree
    /\ \E n \in AllocChoices : \E slots \in CopySlots(n) :
         Bind(moveConstructAlloc(Cur, allocator.treeB = allocator.tree, n, slots), LAMBDA r :
             /\ IF r.res = "bad_alloc"
                THEN Leave(r.h, Fields(Cur), NoTree, [lifetime EXCEPT !.treeB = "failed"])
                ELSE Leave(r.h, r.other, r.tree, [lifetime EXCEPT !.treeB = "live"])
             /\ ret' = Call("move_alloc", r.res)
             /\ ref' = IF r.other.nil = Null THEN [k \in Keys |-> Absent] ELSE ref)

\* tree = std::move(treeB), in a build with or without assertions; from here
\* on the reference map follows what treeB held
MoveAssign ==
    /\ status = "ok" /\ lifetime = [tree |-> "live", treeB |-> "live"]
    /\ \E asserts \in BOOLEAN :
         Bind(moveAssign(Cur, treeB, allocator.treeB = allocator.tree, asserts), LAMBDA r :
             Leave(r.h, r.tree, r.other, lifetime))
    /\ ret' = Call("move_assign", "none")
    /\ ref' = [k \in Keys |->
                 Bind(at(CurB, k), LAMBDA r :
                     IF r.st = "ok" /\ r.node /= Null THEN value[r.node] ELSE Absent)]

\* Two tree objects whose allocators are equal or different: the second is
\* move-constructed from the first with its own allocator, both are filled,
\* the second is erased from, and the second is move-assigned to the first.
InitMoves ==
    /\ Constructed /\ ret = NotRecorded
    /\ allocator \in {[SameAllocator EXCEPT !.treeB = a] : a \in 1..2}
NextMoves ==
    \/ lifetime.tree = "live" /\ (\E p \in Pairs(TreeKeys) : Insert(p[1], p[2])) /\ Room
    \/ MoveConstructAlloc /\ Room
    \/ (\E p \in Pairs(TreeKeys) : InsertB(p[1], p[2])) /\ Room
    \/ \E k \in TreeKeys : EraseB(k)
    \/ MoveAssign

SpecMoves == InitMoves /\ [][NextMoves]_vars

\* Two tree objects, the second a copy or taken by move, that are filled,
\* emptied and swapped.
NextSwap ==
    \/ lifetime.tree = "live" /\ (\E p \in Pairs(TreeKeys) : Insert(p[1], p[2])) /\ Room
    \/ lifetime.tree = "live" /\ \E k \in TreeKeys : Erase(k)
    \/ CopyConstruct /\ Room
    \/ MoveConstruct
    \/ (\E p \in Pairs(TreeKeys) : InsertB(p[1], p[2])) /\ Room
    \/ \E k \in TreeKeys : EraseB(k)
    \/ ClearB
    \/ Swap

SpecSwap == Init /\ [][NextSwap]_vars

\* The calls that build and take apart a tree, without clear() and without
\* lookups: insert, operator[], assignment through operator[], erase.
NextUpdates ==
    \/ \E p \in Pairs(Keys) : Insert(p[1], p[2])
    \/ \E k \in Keys : Index(k)
    \/ \E p \in Pairs(Keys) : IndexAssign(p[1], p[2])
    \/ \E k \in Keys : Erase(k)

SpecUpdates == Init /\ [][NextUpdates]_vars

\* A call on the RingBuffer returned: the trees are as they were.
RingLeave(r) ==
    /\ ring' = r
    /\ UNCHANGED <<parent, left, right, color, key, value, live, nil, root, m_size,
                   treeB, lifetime, allocator, comparator, status, ref, ret>>

Push(val) ==
    /\ ring.st = "ok" /\ ring.pushes < MaxRingCalls
    /\ RingLeave(RingBuffer_push(ring, val))

Pop ==
    /\ ring.st = "ok"
    /\ \E r \in RingBuffer_pop(ring) : RingLeave(r)

\* The RingBuffer used as its interface requires: no push onto a full buffer,
\* no pop of an empty one.
NextRing ==
    \/ \E val \in 1..MaxRingVal : ring.m_write /= Null /\ Push(val)
    \/ ~RingBuffer_empty(ring) /\ Pop

SpecRing == Init /\ [][NextRing]_vars

\* ------------------------------------------------------------ observations
\* The number of Black nodes on every path from n down to the sentinel, or
\* Null when two paths differ or a path does not end at the sentinel.
RECURSIVE BlackHeight(_, _, _)
BlackHeight(h, n, fuel) ==
    IF n = h.nil THEN 0
    ELSE IF fuel = 0 \/ ~Live(h, n) THEN Null
    ELSE Bind(BlackHeight(h, L(h, n), fuel - 1), LAMBDA l :
         Bind(BlackHeight(h, R(h, n), fuel - 1), LAMBDA r :
         IF l = Null \/ l /= r THEN Null
         ELSE IF C(h, n) = "Black" THEN l + 1 ELSE l))

\* The (key, value) pairs a walk visited, and those of the reference map.
Entries(h, seq) == {<<K(h, seq[i]), h.value[seq[i]]>> : i \in 1..Len(seq)}
RefEntries == {<<k, ref[k]>> : k \in {j \in Keys : ref[j] /= Absent}}

\* The walk begin()..end() ends, visits nodes only and never the sentinel.
WalkEnds(h, w) == w.st = "ok" /\ \A i \in 1..Len(w.seq) : w.seq[i] /= h.nil

\* The tree holds key k: find(k) returns an iterator other than end().
Holds(h, k) == Bind(find(h, k), LAMBDA f : f.st = "ok" /\ f.n /= end(h))

\* ------------------------------------------------- properties of the tree
\* C1: between calls of insert, operator[] and erase, every path from the
\* root down to the sentinel contains the same number of Black nodes (I3).
C1_BlackHeight ==
    status = "ok" => BlackHeight(Cur, root, MaxNodes + 1) /= Null

\* C2: between calls of insert, operator[] and erase, no Red node of the tree
\* has a Red parent (I2): no Red node has a Red child.
C2_NoRedRed ==
    status = "ok" =>
        \A n \in Reach(Cur) : \A c \in {left[n], right[n]} \ {nil} :
            ~(color[n] = "Red" /\ C(Cur, c) = "Red")

\* C3: between public operations (insert, operator[], erase, clear) the
\* sentinel of the tree is Black.
C3_SentinelBlack ==
    status = "ok" => color[nil] = "Black"

\* C4: after insert, operator[] and erase calls that left the tree non-empty,
\* the walk from begin() to end() ends and the keys it yields are strictly
\* increasing under the comparator.
C4_IterationIncreasing ==
    status = "ok" /\ root /= nil =>
        Bind(Iterate(Cur), LAMBDA w :
            /\ WalkEnds(Cur, w)
            /\ \A i \in 2..Len(w.seq) : cmp(Cur, key[w.seq[i - 1]], key[w.seq[i]]))

\* C5: after insert, operator[] assignment, erase and clear calls the walk
\* begin()..end() yields exactly the (key, value) pairs of the reference map
\* driven by the same calls, none missing, duplicated or extra (an empty tree
\* yields none).
C5_RefinesMap ==
    status = "ok" =>
        IF root = nil THEN RefEntries = {}
        ELSE Bind(Iterate(Cur), LAMBDA w :
                /\ WalkEnds(Cur, w)
                /\ Entries(Cur, w.seq) = RefEntries
                /\ Len(w.seq) = Cardinality(RefEntries))

\* C6: between calls size() is the number of nodes reachable from the root,
\* which is the number of steps of the walk begin()..end() on a non-empty
\* tree, and empty() is true exactly when that number is 0.
C6_SizeCounts ==
    status = "ok" =>
        /\ size(Cur) = Cardinality(Reach(Cur))
        /\ empty(Cur) <=> Cardinality(Reach(Cur)) = 0
        /\ root /= nil =>
               Bind(Iterate(Cur), LAMBDA w :
                   WalkEnds(Cur, w) /\ Len(w.seq) = size(Cur))

\* at(k) of tree h returns value v.
AtIs(h, k, v) ==
    Bind(at(h, k), LAMBDA a : a.st = "ok" /\ a.res = "value" /\ h.value[a.node] = v)

\* The tree: everything a call may change.
tree == <<parent, left, right, color, key, value, live, nil, root, m_size>>

\* C7: insert((k, v)) of a key the tree lacks returns inserted = true and at(k)
\* is then v; insert((k, v)) of a key the tree holds returns inserted = false
\* and changes nothing.  (A call whose allocation throws is left out; a call
\* that runs into undefined behaviour or never ends does not return.)
C7_Insert ==
    [][\A p \in Pairs(CallKeys) :
          Insert(p[1], p[2]) /\ ret'.res /= "bad_alloc" =>
              /\ status' = "ok"
              /\ IF Holds(Cur, p[1])
                 THEN ret'.res = "exists" /\ UNCHANGED tree
                 ELSE ret'.res = "inserted" /\ AtIs(Cur', p[1], p[2])]_vars

\* C8: erase(k), called between calls on a tree that holds k, returns; find(k)
\* is then end() and every other key the tree held is still found; once every
\* inserted key is erased the tree is empty, of size 0, and its root is the
\* sentinel.
C8_Erase ==
    status = "ok" =>
        \A k \in Keys : Holds(Cur, k) =>
            Bind(erase(Cur, k), LAMBDA r :
                /\ r.h.st = "ok"
                /\ r.res = "erased"
                /\ ~Holds(r.h, k)
                /\ \A j \in Keys \ {k} : Holds(Cur, j) => Holds(r.h, j)
                /\ (\A j \in Keys \ {k} : ref[j] = Absent) =>
                       empty(r.h) /\ size(r.h) = 0 /\ r.h.root = r.h.nil)

\* C9: at(k), called between calls, throws std::out_of_range when the tree
\* lacks k (the reference map driven by the same calls has no entry for k),
\* and returns the value stored for k when it holds k.
C9_At ==
    status = "ok" =>
        \A k \in Keys :
            Bind(at(Cur, k), LAMBDA a :
                /\ a.st = "ok"
                /\ IF ref[k] = Absent THEN a.res = "out_of_range"
                   ELSE a.res = "value" /\ value[a.node] = ref[k])

\* C10: operator[](k) of a key the tree lacks adds one entry holding the
\* default value; operator[](k) of a key it holds returns that entry and
\* creates no node; an assignment through it overwrites the stored value.
C10_Index ==
    [][\A k \in CallKeys :
          /\ Index(k) /\ ret'.res /= "bad_alloc" =>
                /\ status' = "ok"
                /\ IF Holds(Cur, k)
                   THEN ret'.res = "exists" /\ UNCHANGED tree
                   ELSE /\ ret'.res = "inserted"
                        /\ size(Cur') = size(Cur) + 1
                        /\ AtIs(Cur', k, DefaultValue)
          /\ \A v \in {x \in Vals : <<k, x>> \in Pairs(CallKeys)} :
                IndexAssign(k, v) /\ ret'.res /= "bad_alloc" =>
                    status' = "ok" /\ AtIs(Cur', k, v)]_vars

\* C11: find(k), called between calls, returns an iterator to the entry of k
\* when the tree holds k (the reference map driven by the same calls has an
\* entry for k) and end() when it does not.
C11_Find ==
    status = "ok" =>
        \A k \in Keys :
            Bind(find(Cur, k), LAMBDA f :
                /\ f.st = "ok"
                /\ IF ref[k] = Absent THEN f.n = end(Cur)
                   ELSE f.n /= end(Cur) /\ key[f.n] = k /\ value[f.n] = ref[k])

\* C12: from every state the calls reach, erase(k) for a key k the tree does
\* not hold (none that was inserted and not erased, or none find() finds)
\* returns and changes nothing: no link, colour, key, value, root or size,
\* and no block is freed.
C12_EraseAbsent ==
    status = "ok" =>
        \A k \in Keys :
            ref[k] = Absent \/ ~Holds(Cur, k) =>
                erase(Cur, k) = [h |-> Cur, res |-> "absent"]

C12_Witness ==
    /\ status = "ok"
    /\ ret = [op |-> "erase", res |-> "absent"]
    /\ m_size >= 2
    /\ color[nil] = "Red"

\* The value the first pair of values with key k carries, Absent if none does.
RECURSIVE RangeFirst(_, _)
RangeFirst(values, k) ==
    IF values = <<>> THEN Absent
    ELSE IF Head(values)[1] = k THEN Head(values)[2]
    ELSE RangeFirst(Tail(values), k)

\* C13: insert(first, last) returns, and afterwards every key the tree held
\* has the value it had, every other key of the range has the value of its
\* first pair in the range, and no other key is held: the fold of single
\* inserts over the range.  (A call whose allocation throws is left out.)
C13_InsertRange ==
    [][\A values \in Ranges :
          InsertRange(values) /\ ret'.res /= "bad_alloc" =>
              /\ status' = "ok"
              /\ \A k \in Keys :
                    IF Holds(Cur, k) THEN \E v \in Vals : AtIs(Cur, k, v) /\ AtIs(Cur', k, v)
                    ELSE IF RangeFirst(values, k) /= Absent
                         THEN AtIs(Cur', k, RangeFirst(values, k))
                    ELSE ~Holds(Cur', k)]_vars

\* C14: right after treeB is move-constructed from tree, tree is empty with
\* size 0, and every insert and every operator[] then made on tree returns and
\* leaves it a tree of one node, which is not a node of treeB.
C14_MovedFromUsable ==
    [][MoveConstruct =>
          /\ empty(Cur') /\ size(Cur') = 0
          /\ \A p \in Pairs(TreeKeys) : \A n \in Slots \ live' :
                /\ Bind(insert(Cur', p[1], p[2], n), LAMBDA r :
                       /\ r.h.st = "ok" /\ r.res = "inserted" /\ r.h.size = 1
                       /\ Reach(r.h) = {n} /\ AtIs(r.h, p[1], p[2])
                       /\ n \notin Reach(With(r.h, treeB')))
                /\ Bind(index(Cur', p[1], n), LAMBDA r :
                       /\ r.h.st = "ok" /\ r.res = "inserted" /\ r.h.size = 1
                       /\ Reach(r.h) = {n} /\ AtIs(r.h, p[1], DefaultValue)
                       /\ n \notin Reach(With(r.h, treeB')))]_vars

\* C15: every live tree object holds a sentinel of its own (not nullptr, an
\* allocated block, not the other object's), and its root is that sentinel
\* when it is empty; this includes a tree that was moved from.
OwnSentinel(a) == a.nil /= Null /\ a.nil \in live /\ (a.m_size = 0 => a.root = a.nil)
C15_OwnSentinel ==
    status = "ok" =>
        /\ lifetime.tree = "live" => OwnSentinel(Fields(Cur))
        /\ lifetime.treeB = "live" => OwnSentinel(treeB)
        /\ lifetime.tree = "live" /\ lifetime.treeB = "live" => nil /= treeB.nil

\* Every nil, root and m_size a tree object on this heap can hold.
TreeObjects == [nil : Nodes, root : Nodes, m_size : 0..MaxNodes]

\* C16: move-constructing treeB from tree gives treeB the nil, root and size
\* tree had, leaves every node and every link as it was, allocates and frees
\* nothing, so that treeB iterates over the entries tree iterated over and
\* compares with any tree object as tree did before the move.
C16_MoveConstruct ==
    [][MoveConstruct =>
          /\ status' = "ok"
          /\ treeB' = Fields(Cur)
          /\ UNCHANGED <<parent, left, right, color, key, value, live>>
          /\ Iterate(With(Cur', treeB')) = Iterate(Cur)
          /\ \A x \in TreeObjects :
                equal(Cur', treeB', x) = equal(Cur, Fields(Cur), x)]_vars

C16_Witness ==
    /\ status = "ok"
    /\ lifetime = [tree |-> "live", treeB |-> "live"]
    /\ nil = Null /\ root = Null /\ m_size = 0
    /\ treeB.m_size = 2
    /\ Len(Iterate(CurB).seq) = 2
    /\ equal(Cur, treeB, treeB) = [eq |-> TRUE, st |-> "ok"]

\* What a tree object with nil/root/m_size a shows on heap h: its size, the
\* nodes its iteration visits and their (key, value) pairs, and its sentinel.
Shown(h, a) ==
    Bind(Iterate(With(h, a)), LAMBDA w :
        [size |-> a.m_size, st |-> w.st, seq |-> w.seq,
         values |-> IF w.st = "ok" THEN ValuesOf(h, w.seq) ELSE <<>>, nil |-> a.nil])
CallB ==
    \/ \E p \in Pairs(TreeKeys) : InsertB(p[1], p[2]) \/ IndexAssignB(p[1], p[2])
    \/ \E k \in TreeKeys : EraseB(k)
    \/ ClearB
CallA ==
    \/ \E p \in Pairs(TreeKeys) : Insert(p[1], p[2]) \/ IndexAssign(p[1], p[2])
    \/ \E k \in TreeKeys : Erase(k)
    \/ Clear
Copied == lifetime = [tree |-> "live", treeB |-> "live"] /\ nil /= Null

\* C17: a copy construction whose allocations succeed returns; the copy then
\* iterates over the same (key, value) sequence as the original, compares
\* equal to it, and has no node and no sentinel in common with it, and the
\* original is as it was.  From then on insert, operator[] assignment, erase
\* and clear on the copy return and leave what the original shows unchanged,
\* and the same calls on the original leave what the copy shows unchanged.
C17_Copy ==
    [][/\ CopyConstruct /\ lifetime'.treeB /= "failed" =>
            /\ status' = "ok"
            /\ Shown(Cur', treeB').st = "ok"
            /\ Shown(Cur', treeB').values = Shown(Cur, Fields(Cur)).values
            /\ equal(Cur', Fields(Cur'), treeB') = [eq |-> TRUE, st |-> "ok"]
            /\ \A i \in 1..Len(Shown(Cur', treeB').seq) :
                    Shown(Cur', treeB').seq[i] \notin live
            /\ treeB'.nil \notin live
            /\ Shown(Cur', Fields(Cur')) = Shown(Cur, Fields(Cur))
       /\ Copied /\ CallB =>
            status' = "ok" /\ Shown(Cur', Fields(Cur')) = Shown(Cur, Fields(Cur))
       /\ Copied /\ CallA /\ lifetime.tree = "live" =>
            status' = "ok" /\ Shown(Cur', treeB') = Shown(Cur, treeB)]_vars

\* C18: from every state the calls reach, destroying the tree objects that are
\* alive (the second, then the first) returns and leaves no block allocated:
\* each sentinel and each node is given back, and none twice (a second
\* deallocate of a block is undefined).
C18_AllFreed ==
    status = "ok" /\ lifetime.tree = "live" /\ lifetime.treeB /= "failed" =>
        Bind(IF lifetime.treeB = "live" THEN destroy(CurB) ELSE Cur, LAMBDA h1 :
        Bind(destroy(With(h1, Fields(Cur))), LAMBDA h2 :
            h2.st = "ok" /\ h2.live = {}))

\* insert or operator[] with key k took the heap from h to r.h: if it returned
\* it freed nothing, allocated nothing when k was held or allocate() threw,
\* and one block, for the node that now holds k, otherwise.
AllocatesForNewKey(h, r, k) ==
    r.h.st = "ok" =>
        /\ h.live \subseteq r.h.live
        /\ IF Holds(h, k) THEN r.h.live = h.live /\ r.res = "exists"
           ELSE IF r.res = "bad_alloc" THEN r.h.live = h.live
           ELSE /\ r.res = "inserted"
                /\ Cardinality(r.h.live \ h.live) = 1
                /\ r.h.live \ h.live = {r.node}
                /\ r.h.key[r.node] = k

\* C19: a constructed tree holds one block, its sentinel (Constructed).  From
\* every state the calls reach, on either tree object, insert and operator[]
\* allocate one block for a key the tree does not hold and none for one it
\* holds; and a copy construction that returns allocates one block for the
\* copy's sentinel and one for each element of the original.
C19_Allocations ==
    status = "ok" =>
        /\ \A p \in Pairs(TreeKeys) : \A n \in AllocChoices :
              /\ lifetime.tree = "live" =>
                    /\ AllocatesForNewKey(Cur, insert(Cur, p[1], p[2], n), p[1])
                    /\ AllocatesForNewKey(Cur, index(Cur, p[1], n), p[1])
              /\ lifetime.treeB = "live" =>
                    /\ AllocatesForNewKey(CurB, insert(CurB, p[1], p[2], n), p[1])
                    /\ AllocatesForNewKey(CurB, index(CurB, p[1], n), p[1])
        /\ lifetime = OneTree =>
              \A n \in FreeSlots : \A slots \in CopySlots(n) :
                  Bind(copyConstruct(Cur, n, slots), LAMBDA r :
                      r.h.st = "ok" /\ r.res /= "bad_alloc" =>
                          /\ live \subseteq r.h.live
                          /\ n \in r.h.live
                          /\ Cardinality(r.h.live \ live) = 1 + m_size)

C19_Witness ==
    /\ status = "ok" /\ Copied
    /\ m_size = 1 /\ treeB.m_size = 1
    /\ Cardinality(live) = 4
    /\ Reach(Cur) \cap Reach(CurB) = {}

\* C20: from every state the calls reach, an insert or operator[] in which
\* allocate() throws (for a key the tree does not hold; for one it holds
\* nothing is allocated) ends with the tree exactly as it was: every link,
\* colour, key and value, root, nil and size unchanged, the same blocks
\* allocated, and no undefined behaviour.
C20_AllocationFailure ==
    status = "ok" =>
        \A p \in Pairs(Keys) :
            /\ Bind(insert(Cur, p[1], p[2], Null), LAMBDA r :
                   /\ r.h = Cur
                   /\ r.res = IF Holds(Cur, p[1]) THEN "exists" ELSE "bad_alloc")
            /\ Bind(assign(index(Cur, p[1], Null), p[2]), LAMBDA r :
                   IF Holds(Cur, p[1]) THEN r.res = "exists"
                   ELSE r.h = Cur /\ r.res = "bad_alloc")

C20_Witness ==
    /\ status = "ok"
    /\ ret = [op |-> "insert", res |-> "bad_alloc"]
    /\ m_size = 2
    /\ Cardinality(live) = 3
    /\ \E k \in CallKeys : ~Holds(Cur, k)

\* C21: an insert(first, last) in which allocate() throws part-way ends with
\* the tree exactly as it was before the call: the same links, colours, keys,
\* values, root and size, and the same blocks allocated.
C21_RangeAtomic ==
    [][\A values \in Ranges :
          InsertRange(values) /\ ret'.res = "bad_alloc" =>
              status' = "ok" /\ UNCHANGED tree]_vars

\* The nodes an iterator can reference: the allocated blocks but the sentinel.
NodesOf(h) == h.live \ {h.nil}
\* A call that returned took the heap from h to h2: every node of h but those
\* in gone is still allocated and holds the key and the value it held.
Stable(h, h2, gone) ==
    h2.st = "ok" =>
        \A n \in NodesOf(h) \ gone :
            n \in h2.live /\ h2.key[n] = h.key[n] /\ h2.value[n] = h.value[n]

\* C22: from every state the calls reach, an insert or operator[] that returns
\* leaves every node allocated with its key and value, and an erase(k) that
\* returns destroys the node find(k) gave and no other, every other node
\* keeping its key and value (a successor is relinked, not copied).
C22_NodeIdentity ==
    status = "ok" =>
        /\ \A p \in Pairs(CallKeys) : \A n \in AllocChoices :
              /\ Stable(Cur, insert(Cur, p[1], p[2], n).h, {})
              /\ Stable(Cur, index(Cur, p[1], n).h, {})
        /\ \A k \in CallKeys :
              Bind(find(Cur, k), LAMBDA it :
              Bind(erase(Cur, k), LAMBDA r :
                 /\ Stable(Cur, r.h, {it.n})
                 /\ r.h.st = "ok" =>
                       live \ r.h.live = IF r.res = "erased" THEN {it.n} ELSE {}))

\* erase has removed a node with two children: its successor, the node that
\* held the largest key, is now the root above the node it had to its left.
C22_Witness ==
    /\ status = "ok"
    /\ ret = [op |-> "erase", res |-> "erased"]
    /\ m_size = 2
    /\ root /= nil /\ key[root] = MaxCallKey
    /\ left[root] /= nil /\ right[root] = nil
    /\ Cardinality(live) = 3

\* The in-order (key, value) sequence of the tree object a on heap h.
InOrder(h, a) ==
    IF a.root = a.nil THEN <<>> ELSE Shown(h, a).values

\* C23: whenever both tree objects are alive (they share one allocator),
\* tree == treeB returns, and returns true exactly when their sizes are equal
\* and their in-order (key, value) sequences are equal.
C23_Equal ==
    status = "ok" /\ Copied =>
        equal(Cur, Fields(Cur), treeB) =
            [eq |-> m_size = treeB.m_size /\ InOrder(Cur, Fields(Cur)) = InOrder(Cur, treeB),
             st |-> "ok"]

C25_Clear ==
    status = "ok" =>
        Bind(clear(Cur), LAMBDA h :
            /\ h.st = "ok"
            /\ h.live = {nil}
            /\ h.nil = nil /\ h.root = nil /\ h.size = 0)

\* The blocks of the tree object a on heap h: its sentinel and its nodes.
Own(h, a) == {a.nil} \cup Reach(With(h, a))
\* A call that returned took the heap from h to h2 and wrote no field of a
\* block of the tree object a.
Untouched(h, a, h2) ==
    h2.st = "ok" =>
        \A n \in Own(h, a) :
            /\ n \in h2.live
            /\ h2.parent[n] = h.parent[n] /\ h2.left[n] = h.left[n]
            /\ h2.right[n] = h.right[n] /\ h2.color[n] = h.color[n]
            /\ h2.key[n] = h.key[n] /\ h2.value[n] = h.value[n]

\* C26: while two trees are alive, one a copy of the other made earlier, no
\* insert, operator[], erase or clear on one of them that returns writes a
\* field of the other's sentinel or nodes.
C26_Independent ==
    status = "ok" /\ Copied =>
        /\ \A p \in Pairs(TreeKeys) : \A n \in AllocChoices :
              /\ Untouched(Cur, treeB, insert(Cur, p[1], p[2], n).h)
              /\ Untouched(Cur, treeB, assign(index(Cur, p[1], n), p[2]).h)
              /\ Untouched(Cur, Fields(Cur), insert(CurB, p[1], p[2], n).h)
              /\ Untouched(Cur, Fields(Cur), assign(index(CurB, p[1], n), p[2]).h)
        /\ \A k \in TreeKeys :
              /\ Untouched(Cur, treeB, erase(Cur, k).h)
              /\ Untouched(Cur, Fields(Cur), erase(CurB, k).h)
        /\ Untouched(Cur, treeB, clear(Cur))
        /\ Untouched(Cur, Fields(Cur), clear(CurB))

\* C27: when the allocators of the two objects differ, a tree that takes over
\* another's contents by move gets nodes and a sentinel of its own, and none
\* of the source's blocks: the allocator-extended move constructor
\* (RBTree treeB(std::move(tree), alloc)) and move assignment
\* (tree = std::move(treeB)) return, and the taker then shows the elements
\* the source showed in blocks that were not the source's.
C27_MoveFallback ==
    [][allocator.tree /= allocator.treeB =>
          /\ MoveConstructAlloc /\ lifetime'.treeB /= "failed" /\ m_size > 0 =>
                /\ status' = "ok"
                /\ Shown(Cur', treeB').values = Shown(Cur, Fields(Cur)).values
                /\ Own(Cur', treeB') \cap Own(Cur, Fields(Cur)) = {}
          /\ MoveAssign /\ treeB.m_size > 0 =>
                /\ status' = "ok"
                /\ Shown(Cur', Fields(Cur')).values = Shown(Cur, treeB).values
                /\ Own(Cur', Fields(Cur')) \cap Own(Cur, treeB) = {}]_vars

\* C28: in every state that insert, operator[], erase and clear reach, the
\* left and the right link of the sentinel point to the sentinel itself.
C28_SentinelLinks ==
    status = "ok" => left[nil] = nil /\ right[nil] = nil

\* C29: after every call of insert, operator[], erase and clear that returns,
\* the root of a tree that holds elements has the sentinel as its parent,
\* and the root of a tree that holds none is the sentinel.
C29_RootParent ==
    status = "ok" =>
        IF m_size = 0 THEN root = nil ELSE parent[root] = nil

\* erase has removed key 2 of the keys 1, 2, 3, the root of the three nodes,
\* and a node with the sentinel as parent is the root of the two left
C29_Witness ==
    /\ status = "ok" /\ ret = [op |-> "erase", res |-> "erased"]
    /\ m_size = 2 /\ ref[2] = Absent /\ ref[1] /= Absent /\ ref[3] /= Absent
    /\ root /= nil /\ parent[root] = nil
    /\ Cardinality(Reach(Cur)) = 2

\* The keys of the subtree of n from left to right, by the left and right
\* links.
RECURSIVE Flat(_, _, _)
Flat(h, n, fuel) ==
    IF fuel = 0 \/ n = h.nil \/ ~Live(h, n) THEN <<>>
    ELSE Flat(h, L(h, n), fuel - 1) \o <<K(h, n)>> \o Flat(h, R(h, n), fuel - 1)

\* A well-formed tree: the sentinel's links point to the sentinel, the root's
\* parent is the sentinel, the parent link of every child is its parent, the
\* keys increase from left to right and the nodes are as many as size says.
Linked(h) ==
    /\ h.st = "ok" /\ L(h, h.nil) = h.nil /\ R(h, h.nil) = h.nil
    /\ h.root /= h.nil => P(h, h.root) = h.nil
    /\ \A n \in Reach(h) : \A c \in {L(h, n), R(h, n)} \ {h.nil} : P(h, c) = n
    /\ Cardinality(Reach(h)) = h.size
    /\ Bind(Flat(h, h.root, MaxNodes + 1), LAMBDA f :
           Len(f) = h.size /\ \A i \in 1..(Len(f) - 1) : f[i] < f[i + 1])

\* C30: on a well-formed tree leftRotate(x) and rightRotate(y), for every
\* node of the tree and also when the child rotated up is the sentinel,
\* leave the keys from left to right as they were and leave a well-formed
\* tree: every child's parent link is its parent and the sentinel's links
\* still point to the sentinel.
C30_Rotations ==
    status = "ok" /\ Linked(Cur) =>
        \A n \in Reach(Cur) :
            /\ Bind(leftRotate(Cur, n), LAMBDA h :
                   Linked(h) /\ Flat(h, h.root, MaxNodes + 1) = Flat(Cur, root, MaxNodes + 1))
            /\ Bind(rightRotate(Cur, n), LAMBDA h :
                   Linked(h) /\ Flat(h, h.root, MaxNodes + 1) = Flat(Cur, root, MaxNodes + 1))

\* C31: every call of insert, operator[], at, find, erase and clear
\* terminates from every state the calls reach: no loop of a fixup, of a
\* descent or of the traversal of clear runs forever.
C31_Terminates ==
    status /= "hang"

\* C32: in every state the calls reach, findNode(key) returns the node that
\* holds key when the tree holds key; when it does not, it returns the last
\* node of the descent, which holds another key and whose child on the side
\* the comparator chooses for key is the sentinel; on an empty tree it
\* returns the sentinel.
C32_FindNode ==
    status = "ok" =>
        \A k \in Keys :
            Bind(findNode(Cur, k), LAMBDA f :
                /\ f.st = "ok"
                /\ IF m_size = 0 THEN f.n = nil
                   ELSE /\ f.n /= nil
                        /\ IF ref[k] /= Absent THEN key[f.n] = k
                           ELSE /\ key[f.n] /= k
                                /\ IF cmp(Cur, k, key[f.n]) THEN left[f.n] = nil
                                   ELSE right[f.n] = nil)

\* C33: in every state the calls reach, the walk from begin() by successor
\* visits every node of the tree once, in increasing order of the keys, the
\* successor of the last node is the null past-the-end marker end(), and on
\* an empty tree begin() is end().
C33_Walk ==
    status = "ok" =>
        IF m_size = 0 THEN begin(Cur) = [n |-> end(Cur), st |-> "ok"]
        ELSE Bind(Iterate(Cur), LAMBDA w :
                /\ WalkEnds(Cur, w)
                /\ Len(w.seq) = m_size
                /\ {w.seq[i] : i \in 1..Len(w.seq)} = NodesOf(Cur)
                /\ \A i \in 1..(Len(w.seq) - 1) : cmp(Cur, key[w.seq[i]], key[w.seq[i + 1]])
                /\ successor(Cur, w.seq[Len(w.seq)]) = [n |-> end(Cur), st |-> "ok"])

\* C34: in every state the calls reach and for every node n of the tree:
\* when successor(n) is a node, predecessor(successor(n)) is n; when
\* predecessor(n) is a node, successor(predecessor(n)) is n; only the node of
\* the greatest key has the null marker as successor and only the node of
\* the least key has it as predecessor.
C34_Mirror ==
    status = "ok" =>
        \A n \in Reach(Cur) :
            Bind(successor(Cur, n), LAMBDA s :
            Bind(predecessor(Cur, n), LAMBDA p :
                /\ s.st = "ok" /\ p.st = "ok"
                /\ s.n /= Null => predecessor(Cur, s.n) = [n |-> n, st |-> "ok"]
                /\ p.n /= Null => successor(Cur, p.n) = [n |-> n, st |-> "ok"]
                /\ s.n = Null <=> \A m \in Reach(Cur) : ~cmp(Cur, key[n], key[m])
                /\ p.n = Null <=> \A m \in Reach(Cur) : ~cmp(Cur, key[m], key[n])))

\* C35: from every state the calls reach, the fixup of an insert that
\* attaches a new node makes at most two rotations and returns with a Black
\* root.
C35_InsertFixup ==
    status = "ok" =>
        \A k \in CallKeys : \A n \in FreeSlots :
            Bind(findNode(Cur, k), LAMBDA f :
                f.st = "ok" /\ ~(f.n /= nil /\ k = key[f.n]) =>
                    Bind(hook(buildNode(Cur, n, k, DefaultValue), n, k, f.n), LAMBDA h :
                        /\ insertFixupRotations(h, n, LoopFuel) <= 2
                        /\ Bind(insertFixup(h, n), LAMBDA h2 :
                               h2.st = "ok" /\ C(h2, h2.root) = "Black")))

\* C36: with equal allocators and from every state in which both tree
\* objects are alive, the move assignment tree = std::move(treeB) returns,
\* has destroyed the nodes tree had, gives tree the sentinel, root, size and
\* entries treeB had, and leaves treeB empty with a sentinel of its own that
\* is its root.
C36_MoveAssign ==
    status = "ok" /\ lifetime = [tree |-> "live", treeB |-> "live"] =>
        \A asserts \in BOOLEAN :
            Bind(moveAssign(Cur, treeB, TRUE, asserts), LAMBDA r :
                /\ r.h.st = "ok"
                /\ Reach(Cur) \cap r.h.live = {}
                /\ r.tree = treeB
                /\ Shown(r.h, r.tree) = Shown(Cur, treeB)
                /\ r.other.m_size = 0 /\ r.other.nil /= Null
                /\ r.other.nil \in r.h.live /\ r.other.root = r.other.nil)

\* C37: a tree object deallocates its sentinel (destroyNil) and its nodes
\* (destroyNode) through the allocator it holds; in every state that move
\* construction, move assignment, insert and erase reach between two objects
\* whose allocators are equal or different, every block an object holds came
\* from the allocator of that object.
C37_AllocatorMatch ==
    status = "ok" =>
        /\ lifetime.tree = "live" /\ nil /= Null =>
               \A n \in Own(Cur, Fields(Cur)) \cap live : allocator.origin[n] = allocator.tree
        /\ lifetime.treeB = "live" /\ treeB.nil /= Null =>
               \A n \in Own(Cur, treeB) \cap live : allocator.origin[n] = allocator.treeB

\* C38: while no push is made onto a full RingBuffer and no pop of an empty
\* one, size() is the number of pushes minus the number of pops and lies in
\* 0..Slots, the write cursor is null exactly when size() is Slots, and
\* empty() is true exactly when size() is 0.
C38_RingSize ==
    /\ ring.st = "ok"
    /\ RingBuffer_size(ring) = ring.pushes - ring.pops
    /\ RingBuffer_size(ring) \in 0..RingSlots
    /\ ring.m_write = Null <=> RingBuffer_size(ring) = RingSlots
    /\ RingBuffer_empty(ring) <=> RingBuffer_size(ring) = 0

\* the buffer is full for the second time at least, its cursors having
\* wrapped past the end of the storage
C38_Witness ==
    /\ ring.m_write = Null /\ ring.m_read = 2
    /\ ring.pushes >= 2 * RingSlots /\ ring.pops = ring.pushes - RingSlots

\* C39: while no push is made onto a full RingBuffer and no pop of an empty
\* one, the slots from the read cursor on hold the values pushed and not yet
\* popped, oldest first, none overwritten, and front() is the oldest of them.
C39_Fifo ==
    /\ \A i \in 1..Len(ring.pushed) :
           ring.m_storage[(ring.m_read + i - 1) % RingSlots] = ring.pushed[i]
    /\ ring.pushed /= <<>> => RingBuffer_front(ring) = Head(ring.pushed)
    /\ Len(ring.pushed) <= RingSlots

\* after the buffer has been full and the cursors have wrapped, it holds
\* two different values at the end and the start of the storage, and
\* front() is the older one
C39_Witness ==
    /\ ring.pushes > RingSlots /\ ring.pops >= 2
    /\ ring.m_read = RingSlots - 1 /\ ring.m_write = 1
    /\ ring.pushed = <<2, 1>> /\ RingBuffer_front(ring) = 2

====
